---- MODULE Spec2Model ----
(***************************************************************************)
(* Callback-dispatch bridge of native/signal_ffi:                          *)
(*   wrapper/wrapper.c                  the seven store callback slots,    *)
(*                                      their registration functions and   *)
(*                                      their adapter wrappers             *)
(*   wrapper_platform/callback_bridge.c the dispatch slot, its three       *)
(*                                      registration strategies and the    *)
(*                                      trampoline signal_dispatch_wrapper *)
(*                                                                         *)
(* A function pointer is modelled by its address: NULL is 0 and the host's *)
(* callables live at 1..NumHandlers.  The casts between void* and the      *)
(* callback typedefs keep the address.  The engine's handles (store        *)
(* context, out-pointers, by-value wrapper structs) are opaque tokens.     *)
(***************************************************************************)
EXTENDS Integers, Sequences, FiniteSets, TLC

\* ------------------------------------------------------------------ bounds
NumHandlers == 2      \* distinct host callables, at addresses 1..NumHandlers
MaxRegs == 2          \* registration calls in one run
MaxStatus == 2        \* a handler returns a status in 0..MaxStatus
MaxDirection == 2     \* the direction scalar ranges over 0..MaxDirection
MaxArgs == 1          \* the trampoline is given an address in 0..MaxArgs

NULL == 0

Handlers == 1..NumHandlers
Callbacks == {NULL} \cup Handlers          \* what a registration may be given
Status == 0..MaxStatus                     \* what a handler may return
Directions == 0..MaxDirection
Contexts == {"ctxA", "ctxB"}               \* void *store_ctx
OutPointers == {"out"}                     \* recordp, keyp, idp, public_keyp
Addresses == {"addrA", "addrB"}            \* address (a by-value struct)
Values == {"val"}                          \* record, public_key (by value)
ArgsAddresses == 0..MaxArgs                \* uint64_t args_address
SymbolNames == {"spots_dispatch", "spots_dispatch_alt", "no_such_symbol"}

StoreOps == {"LoadSession", "StoreSession", "GetIdentityKeyPair",
             "GetLocalRegistrationId", "SaveIdentityKey", "GetIdentityKey",
             "IsTrustedIdentity"}
AllOps == StoreOps \cup {"Dispatch"}

VARIABLES
  g_load_session_callback,
  g_store_session_callback,
  g_get_identity_key_pair_callback,
  g_get_local_registration_id_callback,
  g_save_identity_key_callback,
  g_get_identity_key_callback,
  g_is_trusted_identity_callback,
  g_dart_callback,
  g_dart_callback_ptr,
  latest,      \* history: per operation, the callable its latest effective
               \* registration supplied (NULL before any)
  replaced,    \* history: the operations for which a registration has
               \* replaced a registered handler by another value
  call,        \* the most recent API call: function, operation, parameters
  result,      \* what that call did and returned
  nregs,       \* registration calls made so far
  inflight     \* the frames of the wrapper the engine's thread is inside,
               \* past its null check (interleaved specification only)

store_slots == <<g_load_session_callback, g_store_session_callback,
                 g_get_identity_key_pair_callback,
                 g_get_local_registration_id_callback,
                 g_save_identity_key_callback, g_get_identity_key_callback,
                 g_is_trusted_identity_callback>>
dispatch_slots == <<g_dart_callback, g_dart_callback_ptr>>
registry == <<store_slots, dispatch_slots>>
history == <<latest, replaced>>
vars == <<registry, history, call, result, nregs, inflight>>

\* The slot an operation's wrapper reads.
Slot(op) ==
  CASE op = "LoadSession" -> g_load_session_callback
    [] op = "StoreSession" -> g_store_session_callback
    [] op = "GetIdentityKeyPair" -> g_get_identity_key_pair_callback
    [] op = "GetLocalRegistrationId" -> g_get_local_registration_id_callback
    [] op = "SaveIdentityKey" -> g_save_identity_key_callback
    [] op = "GetIdentityKey" -> g_get_identity_key_callback
    [] op = "IsTrustedIdentity" -> g_is_trusted_identity_callback
    [] op = "Dispatch" -> g_dart_callback

\* ------------------------------------------------- values crossing the bridge
\* A pointer argument as the handler receives it is either a pointer the
\* engine supplied (its token) or the address of one of the wrapper's own
\* by-value parameters.
AddrOfParam(name) ==
  CASE name = "address" -> "&address"
    [] name = "record" -> "&record"
    [] name = "public_key" -> "&public_key"

\* The parameters of one API call; fields a function does not have stay "" / 0.
\*   outp    : recordp / keyp / idp / public_keyp
\*   address : SignalConstPointerProtocolAddress address (by value)
\*   value   : record / public_key (by value)
NoArgs == [store_ctx |-> "", outp |-> "", address |-> "", value |-> "",
           direction |-> 0, args_address |-> 0, callback |-> NULL,
           function_name |-> ""]

\* What the handler finds behind a pointer it was given, the wrapper's frame
\* holding the parameters `args`.
Deref(args, ref) ==
  CASE ref = "&address" -> args.address
    [] ref \in {"&record", "&public_key"} -> args.value
    [] OTHER -> ref

\* Outcome of a wrapper body: the handler calls made, the status returned,
\* the engine locations written during the call and the pointer arguments
\* the wrapper itself dereferenced.
Void == [calls |-> <<>>, ret |-> 0, writes |-> {}, derefs |-> {}]

\* return 1; // Error: callback not registered
NotRegistered == [Void EXCEPT !.ret = 1]

\* One entry into a handler: (ctx, p1, p2, scalar) as passed, "" / 0 where
\* the callback type has no such parameter, and the status it returned.
Entered(cb, ctx, p1, p2, scalar, h_ret) ==
  [fn |-> cb, ctx |-> ctx, p1 |-> p1, p2 |-> p2, scalar |-> scalar,
   returned |-> h_ret]

\* return cb(ctx, p1, p2[, scalar]);  The host's handler returns h_ret and,
\* when it succeeds, stores its result through the out-pointer it received
\* (outp, "" when the operation has none).
CallHandler(cb, ctx, p1, p2, scalar, outp, h_ret) ==
  [calls |-> <<Entered(cb, ctx, p1, p2, scalar, h_ret)>>,
   ret |-> h_ret,
   writes |-> IF h_ret = 0 /\ outp # "" THEN {outp} ELSE {},
   derefs |-> {}]

Init ==
  /\ g_load_session_callback = NULL
  /\ g_store_session_callback = NULL
  /\ g_get_identity_key_pair_callback = NULL
  /\ g_get_local_registration_id_callback = NULL
  /\ g_save_identity_key_callback = NULL
  /\ g_get_identity_key_callback = NULL
  /\ g_is_trusted_identity_callback = NULL
  /\ g_dart_callback = NULL
  /\ g_dart_callback_ptr = NULL
  /\ latest = [op \in AllOps |-> NULL]
  /\ replaced = {}
  /\ call = [kind |-> "init", fn |-> "", op |-> "", args |-> NoArgs,
             repeat |-> FALSE]
  /\ result = Void
  /\ nregs = 0
  /\ inflight = <<>>

\* ------------------------------------------------ wrapper.c: registration
\* Each registration function stores its argument in its own slot.

\* Variant for comparison: a slot that keeps its first handler.
spots_register_load_session_callback_first_wins(callback) ==
  /\ g_load_session_callback' = IF g_load_session_callback = NULL
                                  THEN callback
                                  ELSE g_load_session_callback
  /\ UNCHANGED <<g_store_session_callback, g_get_identity_key_pair_callback,
                 g_get_local_registration_id_callback,
                 g_save_identity_key_callback, g_get_identity_key_callback,
                 g_is_trusted_identity_callback, dispatch_slots>>

spots_register_load_session_callback(callback) ==
  /\ g_load_session_callback' = callback
  /\ UNCHANGED <<g_store_session_callback, g_get_identity_key_pair_callback,
                 g_get_local_registration_id_callback,
                 g_save_identity_key_callback, g_get_identity_key_callback,
                 g_is_trusted_identity_callback, dispatch_slots>>

spots_register_store_session_callback(callback) ==
  /\ g_store_session_callback' = callback
  /\ UNCHANGED <<g_load_session_callback, g_get_identity_key_pair_callback,
                 g_get_local_registration_id_callback,
                 g_save_identity_key_callback, g_get_identity_key_callback,
                 g_is_trusted_identity_callback, dispatch_slots>>

spots_register_get_identity_key_pair_callback(callback) ==
  /\ g_get_identity_key_pair_callback' = callback
  /\ UNCHANGED <<g_load_session_callback, g_store_session_callback,
                 g_get_local_registration_id_callback,
                 g_save_identity_key_callback, g_get_identity_key_callback,
                 g_is_trusted_identity_callback, dispatch_slots>>

spots_register_get_local_registration_id_callback(callback) ==
  /\ g_get_local_registration_id_callback' = callback
  /\ UNCHANGED <<g_load_session_callback, g_store_session_callback,
                 g_get_identity_key_pair_callback,
                 g_save_identity_key_callback, g_get_identity_key_callback,
                 g_is_trusted_identity_callback, dispatch_slots>>

\* Variant for comparison: registering the handler a slot already holds
\* takes it out again.
spots_register_save_identity_key_callback_toggle(callback) ==
  /\ g_save_identity_key_callback' = IF g_save_identity_key_callback = callback
                                       THEN NULL
                                       ELSE callback
  /\ UNCHANGED <<g_load_session_callback, g_store_session_callback,
                 g_get_identity_key_pair_callback,
                 g_get_local_registration_id_callback,
                 g_get_identity_key_callback,
                 g_is_trusted_identity_callback, dispatch_slots>>

spots_register_save_identity_key_callback(callback) ==
  /\ g_save_identity_key_callback' = callback
  /\ UNCHANGED <<g_load_session_callback, g_store_session_callback,
                 g_get_identity_key_pair_callback,
                 g_get_local_registration_id_callback,
                 g_get_identity_key_callback,
                 g_is_trusted_identity_callback, dispatch_slots>>

\* Variant for comparison: a registration that also writes its neighbour's
\* slot.
spots_register_get_identity_key_callback_and_pair(callback) ==
  /\ g_get_identity_key_callback' = callback
  /\ g_get_identity_key_pair_callback' = callback
  /\ UNCHANGED <<g_load_session_callback, g_store_session_callback,
                 g_get_local_registration_id_callback,
                 g_save_identity_key_callback,
                 g_is_trusted_identity_callback, dispatch_slots>>

spots_register_get_identity_key_callback(callback) ==
  /\ g_get_identity_key_callback' = callback
  /\ UNCHANGED <<g_load_session_callback, g_store_session_callback,
                 g_get_identity_key_pair_callback,
                 g_get_local_registration_id_callback,
                 g_save_identity_key_callback,
                 g_is_trusted_identity_callback, dispatch_slots>>

\* Variant for comparison: a registration that refuses a null handler.
spots_register_is_trusted_identity_callback_keeps_on_null(callback) ==
  /\ g_is_trusted_identity_callback' = IF callback = NULL
                                         THEN g_is_trusted_identity_callback
                                         ELSE callback
  /\ UNCHANGED <<g_load_session_callback, g_store_session_callback,
                 g_get_identity_key_pair_callback,
                 g_get_local_registration_id_callback,
                 g_save_identity_key_callback, g_get_identity_key_callback,
                 dispatch_slots>>

spots_register_is_trusted_identity_callback(callback) ==
  /\ g_is_trusted_identity_callback' = callback
  /\ UNCHANGED <<g_load_session_callback, g_store_session_callback,
                 g_get_identity_key_pair_callback,
                 g_get_local_registration_id_callback,
                 g_save_identity_key_callback, g_get_identity_key_callback,
                 dispatch_slots>>

\* ------------------------------------- callback_bridge.c: registration
\* dlsym(RTLD_DEFAULT, function_name): the process's symbol table.  The host
\* exports two entry points; any other name does not resolve.
dlsym(function_name) ==
  CASE function_name = "spots_dispatch" -> 2
    [] function_name = "spots_dispatch_alt" -> 1
    [] OTHER -> NULL

\* The values of <<g_dart_callback, g_dart_callback_ptr>> each strategy
\* leaves behind.

\* Variant for comparison: a direct registration that records the callable
\* only as an address and leaves the slot the trampoline reads alone.
AfterRegisterDirect_address_only(callback) == <<g_dart_callback, callback>>

\* Option 1: the function pointer itself.
AfterRegisterDirect(callback) == <<callback, g_dart_callback_ptr>>

\* Variant for comparison: an address registration without the cast into
\* the slot the trampoline reads.
AfterRegisterPtr_without_cast(callback_ptr) == <<g_dart_callback, callback_ptr>>

\* Option 2: the function pointer as a void* address, stored and cast.
AfterRegisterPtr(callback_ptr) == <<callback_ptr, callback_ptr>>

\* Variant for comparison: a by-name registration that stores whatever the
\* lookup returned.
AfterRegisterByName_unchecked(function_name) ==
  <<dlsym(function_name), dlsym(function_name)>>

\* Option 3: look the function up by name; nothing is stored when the lookup
\* fails.
AfterRegisterByName(function_name) ==
  LET func_ptr == dlsym(function_name) IN
  IF func_ptr # NULL THEN <<func_ptr, func_ptr>> ELSE dispatch_slots

signal_register_dispatch_callback(callback) ==
  /\ g_dart_callback' = AfterRegisterDirect(callback)[1]
  /\ g_dart_callback_ptr' = AfterRegisterDirect(callback)[2]
  /\ UNCHANGED store_slots

signal_register_dispatch_callback_ptr(callback_ptr) ==
  /\ g_dart_callback' = AfterRegisterPtr(callback_ptr)[1]
  /\ g_dart_callback_ptr' = AfterRegisterPtr(callback_ptr)[2]
  /\ UNCHANGED store_slots

signal_register_dispatch_callback_by_name(function_name) ==
  /\ g_dart_callback' = AfterRegisterByName(function_name)[1]
  /\ g_dart_callback_ptr' = AfterRegisterByName(function_name)[2]
  /\ UNCHANGED store_slots

\* ---------------------------------------------------- wrapper.c: wrappers
\* Each wrapper tests its slot, returns 1 when it is NULL and otherwise
\* calls it once: out-pointers and the context go through as received, a
\* by-value struct goes as the address of the wrapper's own parameter.
\* h_ret is the status the host's handler returns if it is called.

\* Variant for comparison: a wrapper that drops a handler that failed.
spots_load_session_wrapper_drops_on_failure(store_ctx, recordp, address, h_ret) ==
  /\ result' = IF g_load_session_callback = NULL
                 THEN NotRegistered
                 ELSE CallHandler(g_load_session_callback, store_ctx,
                                  recordp, AddrOfParam("address"), 0,
                                  recordp, h_ret)
  /\ g_load_session_callback' = IF h_ret # 0 THEN NULL
                                  ELSE g_load_session_callback
  /\ UNCHANGED <<g_store_session_callback, g_get_identity_key_pair_callback,
                 g_get_local_registration_id_callback,
                 g_save_identity_key_callback, g_get_identity_key_callback,
                 g_is_trusted_identity_callback, dispatch_slots>>

spots_load_session_wrapper(store_ctx, recordp, address, h_ret) ==
  /\ result' = IF g_load_session_callback = NULL
                 THEN NotRegistered
                 ELSE CallHandler(g_load_session_callback, store_ctx,
                                  recordp, AddrOfParam("address"), 0,
                                  recordp, h_ret)
  /\ UNCHANGED registry

\* Variant for comparison: the wrapper without its null check.
spots_store_session_wrapper_unchecked(store_ctx, address, record, h_ret) ==
  /\ result' = CallHandler(g_store_session_callback, store_ctx,
                           AddrOfParam("address"), AddrOfParam("record"),
                           0, "", h_ret)
  /\ UNCHANGED registry

spots_store_session_wrapper(store_ctx, address, record, h_ret) ==
  /\ result' = IF g_store_session_callback = NULL
                 THEN NotRegistered
                 ELSE CallHandler(g_store_session_callback, store_ctx,
                                  AddrOfParam("address"), AddrOfParam("record"),
                                  0, "", h_ret)
  /\ UNCHANGED registry

\* Variant for comparison: a wrapper that uses its handler up.
spots_get_identity_key_pair_wrapper_one_shot(store_ctx, keyp, h_ret) ==
  /\ result' = IF g_get_identity_key_pair_callback = NULL
                 THEN NotRegistered
                 ELSE CallHandler(g_get_identity_key_pair_callback, store_ctx,
                                  keyp, "", 0, keyp, h_ret)
  /\ g_get_identity_key_pair_callback' = NULL
  /\ UNCHANGED <<g_load_session_callback, g_store_session_callback,
                 g_get_local_registration_id_callback,
                 g_save_identity_key_callback, g_get_identity_key_callback,
                 g_is_trusted_identity_callback, dispatch_slots>>

spots_get_identity_key_pair_wrapper(store_ctx, keyp, h_ret) ==
  /\ result' = IF g_get_identity_key_pair_callback = NULL
                 THEN NotRegistered
                 ELSE CallHandler(g_get_identity_key_pair_callback, store_ctx,
                                  keyp, "", 0, keyp, h_ret)
  /\ UNCHANGED registry

\* Variant for comparison: the wrapper reporting only success or failure.
spots_get_local_registration_id_wrapper_clamped(store_ctx, idp, h_ret) ==
  /\ result' = IF g_get_local_registration_id_callback = NULL
                 THEN NotRegistered
                 ELSE [CallHandler(g_get_local_registration_id_callback,
                                   store_ctx, idp, "", 0, idp, h_ret)
                         EXCEPT !.ret = IF h_ret = 0 THEN 0 ELSE 1]
  /\ UNCHANGED registry

spots_get_local_registration_id_wrapper(store_ctx, idp, h_ret) ==
  /\ result' = IF g_get_local_registration_id_callback = NULL
                 THEN NotRegistered
                 ELSE CallHandler(g_get_local_registration_id_callback,
                                  store_ctx, idp, "", 0, idp, h_ret)
  /\ UNCHANGED registry

\* Variant for comparison: a wrapper reporting every failure as 1.
spots_save_identity_key_wrapper_failure_as_1(store_ctx, address, public_key, h_ret) ==
  /\ result' = IF g_save_identity_key_callback = NULL
                 THEN NotRegistered
                 ELSE [CallHandler(g_save_identity_key_callback, store_ctx,
                                   AddrOfParam("address"),
                                   AddrOfParam("public_key"), 0, "", h_ret)
                         EXCEPT !.ret = IF h_ret = 0 THEN 0 ELSE 1]
  /\ UNCHANGED registry

spots_save_identity_key_wrapper(store_ctx, address, public_key, h_ret) ==
  /\ result' = IF g_save_identity_key_callback = NULL
                 THEN NotRegistered
                 ELSE CallHandler(g_save_identity_key_callback, store_ctx,
                                  AddrOfParam("address"),
                                  AddrOfParam("public_key"), 0, "", h_ret)
  /\ UNCHANGED registry

spots_get_identity_key_wrapper(store_ctx, public_keyp, address, h_ret) ==
  /\ result' = IF g_get_identity_key_callback = NULL
                 THEN NotRegistered
                 ELSE CallHandler(g_get_identity_key_callback, store_ctx,
                                  public_keyp, AddrOfParam("address"), 0,
                                  public_keyp, h_ret)
  /\ UNCHANGED registry

\* Variant for comparison: the wrapper passing a fixed direction.
spots_is_trusted_identity_wrapper_fixed_direction(store_ctx, address, public_key, direction, h_ret) ==
  /\ result' = IF g_is_trusted_identity_callback = NULL
                 THEN NotRegistered
                 ELSE CallHandler(g_is_trusted_identity_callback, store_ctx,
                                  AddrOfParam("address"),
                                  AddrOfParam("public_key"), 0, "", h_ret)
  /\ UNCHANGED registry

spots_is_trusted_identity_wrapper(store_ctx, address, public_key, direction, h_ret) ==
  /\ result' = IF g_is_trusted_identity_callback = NULL
                 THEN NotRegistered
                 ELSE CallHandler(g_is_trusted_identity_callback, store_ctx,
                                  AddrOfParam("address"),
                                  AddrOfParam("public_key"), direction, "",
                                  h_ret)
  /\ UNCHANGED registry

\* ------------------------------------- callback_bridge.c: the trampoline
\* Variant for comparison: a trampoline that does not hand its argument on.
Trampoline_without_argument(dart_callback, args_address, h_ret) ==
  IF dart_callback = NULL
    THEN NotRegistered
    ELSE CallHandler(dart_callback, "", "", "", 0, "", h_ret)

\* What the trampoline does when the slot it reads holds dart_callback.
Trampoline(dart_callback, args_address, h_ret) ==
  IF dart_callback = NULL
    THEN NotRegistered
    ELSE CallHandler(dart_callback, "", "", "", args_address, "", h_ret)

\* Variant for comparison: a trampoline that answers a repeated call from
\* the previous call's result.
signal_dispatch_wrapper_cached(args_address, h_ret) ==
  /\ result' = IF /\ call.kind = "invoke"
                  /\ call.fn = "signal_dispatch_wrapper"
                  /\ call.args.args_address = args_address
                 THEN [result EXCEPT !.calls = <<>>]
                 ELSE Trampoline(g_dart_callback, args_address, h_ret)
  /\ UNCHANGED registry

signal_dispatch_wrapper(args_address, h_ret) ==
  /\ result' = Trampoline(g_dart_callback, args_address, h_ret)
  /\ UNCHANGED registry

\* The trampoline's own address, a link-time constant of the library.
signal_dispatch_wrapper_address == 4096

\* Variant for comparison: the accessor handing out the registered handler
\* instead of the trampoline.
signal_get_dispatch_function_ptr_of_handler ==
  /\ result' = [Void EXCEPT !.ret = g_dart_callback]
  /\ UNCHANGED registry

signal_get_dispatch_function_ptr ==
  /\ result' = [Void EXCEPT !.ret = signal_dispatch_wrapper_address]
  /\ UNCHANGED registry

\* ------------------------------------------------------------ API calls
\* Bookkeeping common to the calls: what was called with what, and whether it
\* repeats the call before it.
Noted(kind, fn, op, args) ==
  call' = [kind |-> kind, fn |-> fn, op |-> op, args |-> args,
           repeat |-> (kind \in {"invoke", "register"} /\ call.kind = kind
                       /\ call.fn = fn /\ call.args = args)]

\* No API call is under way: none was made yet, or the last one has returned
\* and its caller has carried on.
Quiet == {"init", "idle"}

\* A registration call for `op`, made between the engine's calls and while
\* the process lives: the host's first call since it resumed, or the
\* registration it has just made, made again.  It took effect with callable
\* h, or had none.
Registers(op, fn, args, effective, h) ==
  /\ \/ call.kind \in Quiet
     \/ call.kind = "register" /\ call.fn = fn /\ call.args = args
  /\ nregs < MaxRegs
  /\ nregs' = nregs + 1
  /\ Noted("register", fn, op, args)
  /\ result' = Void
  /\ latest' = IF effective THEN [latest EXCEPT ![op] = h] ELSE latest
  /\ replaced' = IF effective /\ latest[op] \notin {NULL, h}
                   THEN replaced \cup {op} ELSE replaced
  /\ UNCHANGED inflight

\* The engine calls a wrapper: its first call since it resumed, or a call
\* that has just reached a handler, made again.
Invokes(op, fn, args) ==
  /\ \/ call.kind \in Quiet
     \/ /\ call.kind = "invoke"
        /\ call.fn = fn /\ call.args = args /\ result.calls # <<>>
  /\ Noted("invoke", fn, op, args)
  /\ UNCHANGED <<history, nregs, inflight>>

\* The values the engine may pass for a parameter: any of S, or again the one
\* it passed in the call it has just made.
Again(S, passed) == IF call.kind \in Quiet THEN S ELSE S \cap {passed}

\* The host registers a store callback.
RegisterStore ==
  \E callback \in Callbacks :
    LET a == [NoArgs EXCEPT !.callback = callback] IN
    \/ /\ spots_register_load_session_callback(callback)
       /\ Registers("LoadSession", "spots_register_load_session_callback",
                    a, TRUE, callback)
    \/ /\ spots_register_store_session_callback(callback)
       /\ Registers("StoreSession", "spots_register_store_session_callback",
                    a, TRUE, callback)
    \/ /\ spots_register_get_identity_key_pair_callback(callback)
       /\ Registers("GetIdentityKeyPair",
                    "spots_register_get_identity_key_pair_callback",
                    a, TRUE, callback)
    \/ /\ spots_register_get_local_registration_id_callback(callback)
       /\ Registers("GetLocalRegistrationId",
                    "spots_register_get_local_registration_id_callback",
                    a, TRUE, callback)
    \/ /\ spots_register_save_identity_key_callback(callback)
       /\ Registers("SaveIdentityKey",
                    "spots_register_save_identity_key_callback",
                    a, TRUE, callback)
    \/ /\ spots_register_get_identity_key_callback(callback)
       /\ Registers("GetIdentityKey",
                    "spots_register_get_identity_key_callback",
                    a, TRUE, callback)
    \/ /\ spots_register_is_trusted_identity_callback(callback)
       /\ Registers("IsTrustedIdentity",
                    "spots_register_is_trusted_identity_callback",
                    a, TRUE, callback)

\* The host registers the dispatch callback by one of the three strategies.
RegisterDispatch ==
  \/ \E callback \in Callbacks :
       /\ signal_register_dispatch_callback(callback)
       /\ Registers("Dispatch", "signal_register_dispatch_callback",
                    [NoArgs EXCEPT !.callback = callback], TRUE, callback)
  \/ \E callback_ptr \in Callbacks :
       /\ signal_register_dispatch_callback_ptr(callback_ptr)
       /\ Registers("Dispatch", "signal_register_dispatch_callback_ptr",
                    [NoArgs EXCEPT !.callback = callback_ptr], TRUE,
                    callback_ptr)
  \/ \E function_name \in SymbolNames :
       /\ signal_register_dispatch_callback_by_name(function_name)
       /\ Registers("Dispatch", "signal_register_dispatch_callback_by_name",
                    [NoArgs EXCEPT !.function_name = function_name],
                    dlsym(function_name) # NULL, dlsym(function_name))

\* The statuses the host's handler for `op` may return to a call made now
\* (no handler, no choice to make).
HandlerStatus(op) == IF Slot(op) = NULL THEN {0} ELSE Status

\* The engine calls a store wrapper (a whole call, no registration meanwhile).
InvokeStore ==
  \E store_ctx \in Again(Contexts, call.args.store_ctx) :
    LET c == [NoArgs EXCEPT !.store_ctx = store_ctx] IN
    \/ \E recordp \in Again(OutPointers, call.args.outp),
          address \in Again(Addresses, call.args.address),
          h_ret \in HandlerStatus("LoadSession") :
         /\ Invokes("LoadSession", "spots_load_session_wrapper",
                    [c EXCEPT !.outp = recordp, !.address = address])
         /\ spots_load_session_wrapper(store_ctx, recordp, address, h_ret)
    \/ \E address \in Again(Addresses, call.args.address),
          record \in Again(Values, call.args.value),
          h_ret \in HandlerStatus("StoreSession") :
         /\ Invokes("StoreSession", "spots_store_session_wrapper",
                    [c EXCEPT !.address = address, !.value = record])
         /\ spots_store_session_wrapper(store_ctx, address, record, h_ret)
    \/ \E keyp \in Again(OutPointers, call.args.outp),
          h_ret \in HandlerStatus("GetIdentityKeyPair") :
         /\ Invokes("GetIdentityKeyPair", "spots_get_identity_key_pair_wrapper",
                    [c EXCEPT !.outp = keyp])
         /\ spots_get_identity_key_pair_wrapper(store_ctx, keyp, h_ret)
    \/ \E idp \in Again(OutPointers, call.args.outp),
          h_ret \in HandlerStatus("GetLocalRegistrationId") :
         /\ Invokes("GetLocalRegistrationId",
                    "spots_get_local_registration_id_wrapper",
                    [c EXCEPT !.outp = idp])
         /\ spots_get_local_registration_id_wrapper(store_ctx, idp, h_ret)
    \/ \E address \in Again(Addresses, call.args.address),
          public_key \in Again(Values, call.args.value),
          h_ret \in HandlerStatus("SaveIdentityKey") :
         /\ Invokes("SaveIdentityKey", "spots_save_identity_key_wrapper",
                    [c EXCEPT !.address = address, !.value = public_key])
         /\ spots_save_identity_key_wrapper(store_ctx, address, public_key, h_ret)
    \/ \E public_keyp \in Again(OutPointers, call.args.outp),
          address \in Again(Addresses, call.args.address),
          h_ret \in HandlerStatus("GetIdentityKey") :
         /\ Invokes("GetIdentityKey", "spots_get_identity_key_wrapper",
                    [c EXCEPT !.outp = public_keyp, !.address = address])
         /\ spots_get_identity_key_wrapper(store_ctx, public_keyp, address, h_ret)
    \/ \E address \in Again(Addresses, call.args.address),
          public_key \in Again(Values, call.args.value),
          direction \in Again(Directions, call.args.direction),
          h_ret \in HandlerStatus("IsTrustedIdentity") :
         /\ Invokes("IsTrustedIdentity", "spots_is_trusted_identity_wrapper",
                    [c EXCEPT !.address = address, !.value = public_key,
                              !.direction = direction])
         /\ spots_is_trusted_identity_wrapper(store_ctx, address, public_key,
                                              direction, h_ret)

\* The engine calls the trampoline, or the host asks for its address.
InvokeDispatch ==
  \/ \E args_address \in Again(ArgsAddresses, call.args.args_address),
        h_ret \in HandlerStatus("Dispatch") :
       /\ Invokes("Dispatch", "signal_dispatch_wrapper",
                  [NoArgs EXCEPT !.args_address = args_address])
       /\ signal_dispatch_wrapper(args_address, h_ret)
  \/ /\ call.kind \in Quiet
     /\ signal_get_dispatch_function_ptr
     /\ Noted("query", "signal_get_dispatch_function_ptr", "Dispatch", NoArgs)
     /\ UNCHANGED <<history, nregs, inflight>>

\* The caller takes what the call returned and carries on.
CallerResumes ==
  /\ call.kind \in {"invoke", "register", "query"}
  /\ call' = [kind |-> "idle", fn |-> "", op |-> "", args |-> NoArgs,
              repeat |-> FALSE]
  /\ result' = Void
  /\ UNCHANGED <<registry, history, nregs, inflight>>

Next ==
  \/ RegisterStore
  \/ RegisterDispatch
  \/ InvokeStore
  \/ InvokeDispatch
  \/ CallerResumes

Spec == Init /\ [][Next]_vars

\* ------------------------------------------- interleaved with registration
\* The slots are plain statics, read and written without synchronisation, so
\* a registration on the host's thread may land while a wrapper runs on the
\* engine's thread.  A wrapper names its slot twice, in the null check and in
\* the call; the build may load it once and reuse the value, or load it again
\* for the call.  Both outcomes are kept.

\* if (g_..._callback == NULL) return 1;
\* (the arguments play no part in the race and are left out)
WrapperChecks(op, fn) ==
  /\ inflight = <<>>
  /\ call.kind \in Quiet
  /\ IF Slot(op) = NULL
       THEN /\ Noted("invoke", fn, op, NoArgs)
            /\ result' = NotRegistered
            /\ UNCHANGED inflight
       ELSE /\ inflight' = <<[op |-> op, fn |-> fn, loaded |-> Slot(op)]>>
            /\ UNCHANGED <<call, result>>
  /\ UNCHANGED <<registry, history, nregs>>

\* return g_..._callback(...);  A call through a null function pointer ends
\* the process.
WrapperCalls(op) ==
  /\ inflight # <<>>
  /\ inflight[1].op = op
  /\ \E callee \in {inflight[1].loaded, Slot(op)}, h_ret \in Status :
       /\ Noted(IF callee = NULL THEN "crashed" ELSE "invoke",
                inflight[1].fn, op, NoArgs)
       /\ result' = CallHandler(callee, "", "", "", 0, "", h_ret)
  /\ inflight' = <<>>
  /\ UNCHANGED <<registry, history, nregs>>

\* Which wrapper serves an operation.
WrapperOf(op) ==
  CASE op = "LoadSession" -> "spots_load_session_wrapper"
    [] op = "StoreSession" -> "spots_store_session_wrapper"
    [] op = "GetIdentityKeyPair" -> "spots_get_identity_key_pair_wrapper"
    [] op = "GetLocalRegistrationId" -> "spots_get_local_registration_id_wrapper"
    [] op = "SaveIdentityKey" -> "spots_save_identity_key_wrapper"
    [] op = "GetIdentityKey" -> "spots_get_identity_key_wrapper"
    [] op = "IsTrustedIdentity" -> "spots_is_trusted_identity_wrapper"
    [] op = "Dispatch" -> "signal_dispatch_wrapper"

StoreWrapperChecks == \E op \in StoreOps : WrapperChecks(op, WrapperOf(op))
StoreWrapperCalls == \E op \in StoreOps : WrapperCalls(op)
DispatchWrapperChecks == WrapperChecks("Dispatch", WrapperOf("Dispatch"))
DispatchWrapperCalls == WrapperCalls("Dispatch")

ConcNext ==
  \/ RegisterStore
  \/ RegisterDispatch
  \/ StoreWrapperChecks
  \/ StoreWrapperCalls
  \/ DispatchWrapperChecks
  \/ DispatchWrapperCalls
  \/ CallerResumes

ConcSpec == Init /\ [][ConcNext]_vars

\* ================================================================ properties
\* The engine has called `op`'s wrapper and the call has returned.
Invoked(op) == call.kind = "invoke" /\ call.op = op

\* The addresses of a wrapper's own by-value parameters.
ParamRefs == {AddrOfParam(name) : name \in {"address", "record", "public_key"}}

\* C1: a store wrapper invoked while its operation has no handler (never
\* registered, or last registered as null) returns 1, calls no handler, and
\* neither reads nor writes any of its pointer arguments.
NotRegisteredIsInert ==
  (call.kind = "invoke" /\ call.op \in StoreOps /\ latest[call.op] = NULL) =>
    /\ result.ret = 1
    /\ result.calls = <<>>
    /\ result.writes = {}
    /\ result.derefs = {}

\* StoreSession invoked after its handler was replaced by null.
NotRegisteredIsInert_witness ==
  /\ Invoked("StoreSession")
  /\ latest["StoreSession"] = NULL
  /\ "StoreSession" \in replaced
  /\ result.ret = 1

\* C2: a store wrapper invoked after registrations for its operation calls
\* exactly the handler of the most recent registration, never an earlier one.
LastWriteWins ==
  (call.kind = "invoke" /\ call.op \in StoreOps) =>
    /\ latest[call.op] = NULL => result.calls = <<>>
    /\ latest[call.op] # NULL => result.calls # <<>>
    /\ \A i \in 1..Len(result.calls) : result.calls[i].fn = latest[call.op]

\* LoadSession invoked after one handler replaced another.
LastWriteWins_witness ==
  /\ Invoked("LoadSession")
  /\ "LoadSession" \in replaced
  /\ latest["LoadSession"] # NULL
  /\ result.calls # <<>>

\* C3: under any interleaving of registrations with a wrapper or trampoline
\* invocation, the invocation never calls a null handler: it returns 1 without
\* calling, or calls a non-null handler.
NeverCallsNull ==
  /\ call.kind # "crashed"
  /\ \A i \in 1..Len(result.calls) : result.calls[i].fn # NULL

\* C4: with a handler registered, the wrapper or trampoline returns exactly
\* the status the handler returned, whatever its value.
StatusForwarded ==
  (call.kind = "invoke" /\ call.op \in AllOps /\ latest[call.op] # NULL) =>
    /\ Len(result.calls) = 1
    /\ result.ret = result.calls[1].returned

\* GetLocalRegistrationId's handler returned the largest status, not 0 or 1.
StatusForwarded_witness ==
  /\ Invoked("GetLocalRegistrationId")
  /\ result.calls # <<>>
  /\ result.calls[1].returned = MaxStatus
  /\ MaxStatus > 1

\* C5: signal_dispatch_wrapper with no dispatch handler registered returns 1
\* and makes no call; with one registered it calls that handler once with the
\* args_address it was given.
DispatchSentinel ==
  (call.kind = "invoke" /\ call.fn = "signal_dispatch_wrapper") =>
    IF latest["Dispatch"] = NULL
      THEN result.ret = 1 /\ result.calls = <<>>
      ELSE /\ Len(result.calls) = 1
           /\ result.calls[1].fn = latest["Dispatch"]
           /\ result.calls[1].scalar = call.args.args_address

\* The trampoline invoked when the registrations made so far left no
\* dispatch handler.
DispatchSentinel_witness ==
  /\ call.kind = "invoke" /\ call.fn = "signal_dispatch_wrapper"
  /\ nregs > 0
  /\ latest = [op \in AllOps |-> NULL]
  /\ replaced = {}
  /\ call.args.args_address # 0
  /\ result.ret = 1

\* C6: a by-name dispatch registration whose name does not resolve changes
\* nothing: every slot keeps its value, so a dispatch does after it what it
\* did before, and the caller is told nothing.
UnresolvedNameIsNoOp ==
  [][(/\ call'.kind = "register"
      /\ call'.fn = "signal_register_dispatch_callback_by_name"
      /\ dlsym(call'.args.function_name) = NULL)
     => /\ registry' = registry
        /\ result' = Void
        /\ \A a \in ArgsAddresses, r \in Status :
             Trampoline(g_dart_callback', a, r) = Trampoline(g_dart_callback, a, r)]_vars

\* An unresolvable name registered while a dispatch handler is active.
UnresolvedNameIsNoOp_witness ==
  /\ call.kind = "register"
  /\ call.fn = "signal_register_dispatch_callback_by_name"
  /\ call.args.function_name = "no_such_symbol"
  /\ g_dart_callback # NULL

\* C7: the three dispatch registration strategies set the one slot the
\* trampoline reads: after any mix of them, dispatch reaches the handler of
\* the last successful registration, whichever strategy supplied it.
OneDispatchSlot ==
  /\ g_dart_callback = latest["Dispatch"]
  /\ (Invoked("Dispatch") /\ call.fn = "signal_dispatch_wrapper"
        /\ latest["Dispatch"] # NULL) =>
       /\ result.calls # <<>>
       /\ result.calls[1].fn = latest["Dispatch"]

\* Dispatch reaching a directly registered handler that replaced one
\* registered by address or by name.
OneDispatchSlot_witness ==
  /\ Invoked("Dispatch") /\ call.fn = "signal_dispatch_wrapper"
  /\ "Dispatch" \in replaced
  /\ g_dart_callback_ptr \notin {NULL, g_dart_callback}
  /\ result.calls # <<>>
  /\ result.calls[1].fn = g_dart_callback

\* C8: registering one callable directly or by address is the same to
\* dispatch: from any state, for every args_address, the trampoline calls the
\* same handler with the same argument and returns the same status.
\* (The slots change only in a registration, so the states right after
\* construction or a registration show every value they take.)
DirectAndAddressAgree ==
  /\ call.kind \in {"init", "register"} =>
       \A h \in Callbacks, a \in ArgsAddresses, r \in Status :
         Trampoline(AfterRegisterDirect(h)[1], a, r)
           = Trampoline(AfterRegisterPtr(h)[1], a, r)
  /\ (/\ call.kind = "register"
      /\ call.fn \in {"signal_register_dispatch_callback",
                      "signal_register_dispatch_callback_ptr"})
       => g_dart_callback = call.args.callback

\* Dispatch reaching a handler registered directly while no address is
\* recorded.
DirectAndAddressAgree_witness ==
  /\ Invoked("Dispatch") /\ call.fn = "signal_dispatch_wrapper"
  /\ g_dart_callback # NULL
  /\ g_dart_callback_ptr = NULL
  /\ result.calls # <<>>
  /\ result.ret = result.calls[1].returned

\* What `op`'s handler must have received in entry c for the call with
\* parameters a.
PassedThrough(op, a, c) ==
  /\ c.ctx = a.store_ctx
  /\ op \in {"LoadSession", "GetIdentityKey"} =>
       /\ c.p1 = a.outp
       /\ c.p2 \in ParamRefs /\ Deref(a, c.p2) = a.address
  /\ op \in {"GetIdentityKeyPair", "GetLocalRegistrationId"} =>
       c.p1 = a.outp
  /\ op \in {"StoreSession", "SaveIdentityKey", "IsTrustedIdentity"} =>
       /\ c.p1 \in ParamRefs /\ Deref(a, c.p1) = a.address
       /\ c.p2 \in ParamRefs /\ Deref(a, c.p2) = a.value
  /\ op = "IsTrustedIdentity" => c.scalar = a.direction

\* C9: a wrapper invoked with a handler registered passes the engine's
\* arguments through: the same store context, the same out-pointer, a
\* reference to a copy of each by-value handle, and for IsTrustedIdentity
\* the same direction.
ArgumentsPassedThrough ==
  (call.kind = "invoke" /\ call.op \in StoreOps /\ latest[call.op] # NULL) =>
    /\ result.calls # <<>>
    /\ \A i \in 1..Len(result.calls) :
         PassedThrough(call.op, call.args, result.calls[i])

\* IsTrustedIdentity's handler saw direction 2 and answered 1.
ArgumentsPassedThrough_witness ==
  /\ Invoked("IsTrustedIdentity")
  /\ call.args.direction = 2
  /\ result.calls # <<>>
  /\ result.calls[1].scalar = 2
  /\ result.ret = 1

\* C10: every invocation with a handler registered calls it exactly once,
\* also when it repeats the call before it with the same arguments and when
\* the handler fails.
ExactlyOnce ==
  (call.kind = "invoke" /\ call.op \in AllOps /\ latest[call.op] # NULL) =>
    /\ Len(result.calls) = 1
    /\ result.calls[1].ctx = call.args.store_ctx
    /\ call.op = "Dispatch" =>
         result.calls[1].scalar = call.args.args_address
    /\ call.repeat => result.calls[1].fn = latest[call.op]

\* The trampoline called a second time with the same argument, the handler
\* failing.
ExactlyOnce_witness ==
  /\ Invoked("Dispatch") /\ call.fn = "signal_dispatch_wrapper"
  /\ call.repeat
  /\ Len(result.calls) = 1
  /\ result.ret # 0

\* C11: registration has no failure mode and accepts null: a registration
\* leaves its slot holding exactly what it was given, and after null has
\* replaced a handler the next invocation returns 1 and calls nothing.
NullRegistrationUnregisters ==
  /\ (/\ call.kind = "register"
      /\ call.fn # "signal_register_dispatch_callback_by_name") =>
       /\ Slot(call.op) = call.args.callback
       /\ result = Void
  /\ (/\ call.kind = "invoke" /\ call.op \in AllOps
      /\ call.op \in replaced /\ latest[call.op] = NULL) =>
       /\ result.ret = 1
       /\ result.calls = <<>>

\* IsTrustedIdentity invoked after null replaced its handler.
NullRegistrationUnregisters_witness ==
  /\ Invoked("IsTrustedIdentity")
  /\ "IsTrustedIdentity" \in replaced
  /\ g_is_trusted_identity_callback = NULL
  /\ result.ret = 1
  /\ result.calls = <<>>

\* C12: invoking a wrapper or the trampoline only reads the registry: every
\* slot holds after the invocation what it held before, whatever the outcome.
InvocationReadsOnly ==
  [][call'.kind = "invoke" => registry' = registry]_vars

\* GetIdentityKeyPair's handler called and failing, its slot still set.
InvocationReadsOnly_witness ==
  /\ Invoked("GetIdentityKeyPair")
  /\ result.calls # <<>>
  /\ result.ret # 0
  /\ g_get_identity_key_pair_callback = result.calls[1].fn

\* C13: registration is idempotent: making the same registration a second
\* time in a row leaves every slot as the first left it, so invocations after
\* it find what they would have found.
RegistrationIdempotent ==
  [][(call'.kind = "register" /\ call'.repeat)
     => /\ registry' = registry
        /\ result' = Void]_vars

\* SaveIdentityKey's handler registered twice in a row.
RegistrationIdempotent_witness ==
  /\ call.kind = "register" /\ call.repeat
  /\ call.op = "SaveIdentityKey"
  /\ call.args.callback # NULL
  /\ g_save_identity_key_callback = call.args.callback

\* C14: signal_get_dispatch_function_ptr returns the trampoline's address in
\* every state, whatever has been registered, and changes nothing.
TrampolineAddressStable ==
  /\ [](call.kind = "query" => result.ret = signal_dispatch_wrapper_address)
  /\ [][call'.kind = "query" => registry' = registry]_vars

\* The address asked for while a dispatch handler is registered.
TrampolineAddressStable_witness ==
  /\ call.kind = "query"
  /\ nregs > 0
  /\ g_dart_callback # NULL
  /\ result.ret = signal_dispatch_wrapper_address

\* C15 as stated: whenever a wrapper or the trampoline returns 1, no handler
\* was active for its operation; 1 never comes from a handler's own return.
SentinelMeansNoHandler ==
  (call.kind = "invoke" /\ call.op \in AllOps /\ result.ret = 1) =>
    /\ latest[call.op] = NULL
    /\ result.calls = <<>>

\* C15, amended: whenever a wrapper or the trampoline returns 1, either no
\* handler was active and none was called, or the active handler was called
\* once and itself returned 1.
SentinelOrHandlersOwnStatus ==
  (call.kind = "invoke" /\ call.op \in AllOps /\ result.ret = 1) =>
    IF latest[call.op] = NULL
      THEN result.calls = <<>>
      ELSE /\ Len(result.calls) = 1
           /\ result.calls[1].fn = latest[call.op]
           /\ result.calls[1].returned = 1

\* IsTrustedIdentity's handler answered 1 and the wrapper returned it.
SentinelOrHandlersOwnStatus_witness ==
  /\ Invoked("IsTrustedIdentity")
  /\ g_is_trusted_identity_callback # NULL
  /\ result.calls # <<>>
  /\ result.calls[1].returned = 1
  /\ result.ret = 1

\* C16: the slots are independent: a registration changes only the slot of
\* its own operation (a dispatch registration, only the dispatch bridge's
\* two), and a wrapper calls only what its own slot holds.
SlotsIndependent ==
  /\ [][call'.kind = "register" =>
          /\ \A op \in AllOps \ {call'.op} : Slot(op)' = Slot(op)
          /\ call'.op # "Dispatch" =>
               g_dart_callback_ptr' = g_dart_callback_ptr]_vars
  /\ [](call.kind = "invoke" /\ call.op \in AllOps =>
          \A i \in 1..Len(result.calls) : result.calls[i].fn = Slot(call.op))

\* GetIdentityKey's handler registered while GetIdentityKeyPair holds
\* another one.
SlotsIndependent_witness ==
  /\ call.kind = "register"
  /\ call.op = "GetIdentityKey"
  /\ g_get_identity_key_callback # NULL
  /\ g_get_identity_key_pair_callback \notin {NULL, g_get_identity_key_callback}

\* C17: a registered operation stays registered: its slot goes from a handler
\* to null only in a registration of null for that same operation, and until
\* then its wrapper reaches a handler.
StaysRegistered ==
  /\ [][\A op \in AllOps :
          (Slot(op) # NULL /\ Slot(op)' = NULL) =>
            /\ call'.kind = "register"
            /\ call'.op = op
            /\ call'.fn # "signal_register_dispatch_callback_by_name"
            /\ call'.args.callback = NULL]_vars
  /\ [](call.kind = "invoke" /\ call.op \in AllOps /\ Slot(call.op) # NULL =>
          result.calls # <<>>)

\* LoadSession's handler reached by a second call in a row and failing, two
\* registrations having been made.
StaysRegistered_witness ==
  /\ Invoked("LoadSession")
  /\ call.repeat
  /\ nregs > 1
  /\ result.calls # <<>>
  /\ result.ret # 0

\* C18: the dispatch bridge's two stored copies of the handler agree in
\* every reachable state.
StoredCopiesAgree == g_dart_callback_ptr = g_dart_callback

====
